---- MODULE Spec2Model ----
(***************************************************************************)
(* Nutrition-label parsing core of backend/app/apis/ocr/__init__.py:       *)
(* find_nearest_number (the number extractor) and                          *)
(* parse_nutrition_text_proximity (the proximity parser).                  *)
(*                                                                         *)
(* A Python str is modelled as a sequence of one-character strings, a      *)
(* Python float as a record holding the decimal it was read from, with the *)
(* two places where a binary double differs from the decimal kept: a value *)
(* too large for a double is "inf", an integer a double cannot hold        *)
(* exactly is "rounded".                                                   *)
(***************************************************************************)
EXTENDS Integers, Sequences, FiniteSets, TLC

VARIABLES
    text_segment,       \* find_nearest_number: argument text_segment
    prioritize_grams,   \* find_nearest_number: argument prioritize_grams
    fnn_pc,             \* find_nearest_number: "call" before, "return" after
    fnn_result,         \* find_nearest_number: the returned Optional[float]
    text,               \* parse_nutrition_text_proximity: argument text
    lines,              \* the local `lines`: the stripped non-empty lines
    key_index,          \* number of keys of `keywords` the main loop has done
    pc,                 \* "loop", "returned" or "raised"
    extracted_data,     \* the result dict
    keyword_found_on_line, \* per key, the local of that name (-1: none)
    term,               \* per key, the local of that name: the term matched
    calls,              \* per invocation running side by side, its own locals
    request             \* process_label: the request it handles and where it is

vars == <<text_segment, prioritize_grams, fnn_pc, fnn_result,
          text, lines, key_index, pc, extracted_data, keyword_found_on_line,
          term, calls, request>>

fnn_vars == <<text_segment, prioritize_grams, fnn_pc, fnn_result>>

parse_vars ==
    <<text, lines, key_index, pc, extracted_data, keyword_found_on_line, term>>

----------------------------------------------------------------------------
(* Characters and strings *)

\* F of the value of x, with that value computed once
Let(x, F(_)) == CHOOSE r \in {F(v) : v \in {x}} : TRUE

DigitChars == <<"0", "1", "2", "3", "4", "5", "6", "7", "8", "9">>

Digits == {DigitChars[k] : k \in 1..10}

IsDigit(c) == c \in Digits

DigitVal(c) == (CHOOSE k \in 1..10 : DigitChars[k] = c) - 1

\* \s of the re module, and the characters str.strip() removes
IsSpace(c) == c \in {" ", "\t", "\n", "\r"}

UpperLetters ==
    <<"A", "B", "C", "D", "E", "F", "G", "H", "I", "J", "K", "L", "M", "N",
      "O", "P", "Q", "R", "S", "T", "U", "V", "W", "X", "Y", "Z", "Ú", "Í", "É">>

LowerLetters ==
    <<"a", "b", "c", "d", "e", "f", "g", "h", "i", "j", "k", "l", "m", "n",
      "o", "p", "q", "r", "s", "t", "u", "v", "w", "x", "y", "z", "ú", "í", "é">>

UpperSet == {UpperLetters[k] : k \in 1..Len(UpperLetters)}

LowerSet == {LowerLetters[k] : k \in 1..Len(LowerLetters)}

IsUpper(c) == c \in UpperSet

IsLetter(c) == c \in UpperSet \/ c \in LowerSet

\* \w of the re module
IsWordChar(c) == IsLetter(c) \/ IsDigit(c) \/ c = "_"

LowerChar(c) ==
    IF IsUpper(c)
    THEN LowerLetters[CHOOSE k \in 1..Len(UpperLetters) : UpperLetters[k] = c]
    ELSE c

\* str.lower()
Lower(s) == Let(s, LAMBDA t : [i \in 1..Len(t) |-> LowerChar(t[i])])

SetMin(S) == CHOOSE m \in S : \A n \in S : m <= n

SetMax(S) == 0 - SetMin({0 - n : n \in S})

\* s[i:] with i a 1-based position
Tail_From(s, i) == SubSeq(s, i, Len(s))

\* sub occurs in s at position i
OccursAt(s, sub, i) ==
    /\ i >= 1
    /\ i + Len(sub) - 1 <= Len(s)
    /\ \A k \in 1..Len(sub) : s[i + k - 1] = sub[k]

\* `sub in s`
Contains(s, sub) ==
    \E t \in {s} : \E u \in {sub} :
        \E i \in 1..(Len(t) - Len(u) + 1) : OccursAt(t, u, i)

\* s.find(sub), as a 1-based position (0: not found)
Find(s, sub) ==
    Let(<<s, sub>>, LAMBDA a :
        IF Contains(a[1], a[2])
        THEN SetMin({i \in 1..(Len(a[1]) - Len(a[2]) + 1) : OccursAt(a[1], a[2], i)})
        ELSE 0)

\* str.strip()
Strip(s) ==
    Let(s, LAMBDA t :
        Let({i \in 1..Len(t) : ~IsSpace(t[i])}, LAMBDA keep :
            IF keep = {} THEN <<>> ELSE SubSeq(t, SetMin(keep), SetMax(keep))))

\* the first position >= i that holds no digit (Len(s) + 1 at the end)
DigitsEnd(s, i) ==
    CHOOSE j \in i..(Len(s) + 1) :
        /\ j > Len(s) \/ ~IsDigit(s[j])
        /\ \A k \in i..(j - 1) : IsDigit(s[k])

\* \s* from position i: the first position >= i that holds no whitespace
SkipSpace(s, i) ==
    CHOOSE j \in i..(Len(s) + 1) :
        /\ j > Len(s) \/ ~IsSpace(s[j])
        /\ \A k \in i..(j - 1) : IsSpace(s[k])

\* the character at position i, "" past the end
CharAt(s, i) == IF i >= 1 /\ i <= Len(s) THEN s[i] ELSE ""

----------------------------------------------------------------------------
(* float: the value of a matched number string *)

StripLeadingZeros(d) ==
    Let(d, LAMBDA t :
        Let({k \in 1..Len(t) : t[k] # "0"}, LAMBDA nz :
            IF nz = {} THEN <<>> ELSE SubSeq(t, SetMin(nz), Len(t))))

StripTrailingZeros(d) ==
    Let(d, LAMBDA t :
        Let({k \in 1..Len(t) : t[k] # "0"}, LAMBDA nz :
            IF nz = {} THEN <<>> ELSE SubSeq(t, 1, SetMax(nz))))

\* a >= b for naturals written without leading zeros
DigitsGeq(a, b) ==
    \/ Len(a) > Len(b)
    \/ /\ Len(a) = Len(b)
       /\ \/ a = b
          \/ \E k \in 1..Len(a) :
                /\ \A j \in 1..(k - 1) : a[j] = b[j]
                /\ DigitVal(a[k]) > DigitVal(b[k])

\* d / 2 for an even natural d
Halve(d) ==
    StripLeadingZeros(
        [k \in 1..Len(d) |->
            DigitChars[((IF k > 1 /\ DigitVal(d[k - 1]) % 2 = 1 THEN 10 ELSE 0)
                        + DigitVal(d[k])) \div 2 + 1]])

\* 2^53: every natural up to it is a double
Two53 == <<"9", "0", "0", "7", "1", "9", "9", "2", "5", "4", "7", "4", "0", "9", "9", "2">>

\* 2^1024 - 2^970: the least natural float() turns into inf
FloatOverflow ==
    <<"1", "7", "9", "7", "6", "9", "3", "1", "3", "4", "8", "6", "2", "3", "1">>
    \o <<"5", "8", "0", "7", "9", "3", "7", "2", "8", "9", "7", "1", "4", "0", "5">>
    \o <<"3", "0", "3", "4", "1", "5", "0", "7", "9", "9", "3", "4", "1", "3", "2">>
    \o <<"7", "1", "0", "0", "3", "7", "8", "2", "6", "9", "3", "6", "1", "7", "3">>
    \o <<"7", "7", "8", "9", "8", "0", "4", "4", "4", "9", "6", "8", "2", "9", "2">>
    \o <<"7", "6", "4", "7", "5", "0", "9", "4", "6", "6", "4", "9", "0", "1", "7">>
    \o <<"9", "7", "7", "5", "8", "7", "2", "0", "7", "0", "9", "6", "3", "3", "0">>
    \o <<"2", "8", "6", "4", "1", "6", "6", "9", "2", "8", "8", "7", "9", "1", "0">>
    \o <<"9", "4", "6", "5", "5", "5", "5", "4", "7", "8", "5", "1", "9", "4", "0">>
    \o <<"4", "0", "2", "6", "3", "0", "6", "5", "7", "4", "8", "8", "6", "7", "1">>
    \o <<"5", "0", "5", "8", "2", "0", "6", "8", "1", "9", "0", "8", "9", "0", "2">>
    \o <<"0", "0", "0", "7", "0", "8", "3", "8", "3", "6", "7", "6", "2", "7", "3">>
    \o <<"8", "5", "4", "8", "4", "5", "8", "1", "7", "7", "1", "1", "5", "3", "1">>
    \o <<"7", "6", "4", "4", "7", "5", "7", "3", "0", "2", "7", "0", "0", "6", "9">>
    \o <<"8", "5", "5", "5", "7", "1", "3", "6", "6", "9", "5", "9", "6", "2", "2">>
    \o <<"8", "4", "2", "9", "1", "4", "8", "1", "9", "8", "6", "0", "8", "3", "4">>
    \o <<"9", "3", "6", "4", "7", "5", "2", "9", "2", "7", "1", "9", "0", "7", "4">>
    \o <<"1", "6", "8", "4", "4", "4", "3", "6", "5", "5", "1", "0", "7", "0", "4">>
    \o <<"3", "4", "2", "7", "1", "1", "5", "5", "9", "6", "9", "9", "5", "0", "8">>
    \o <<"0", "9", "3", "0", "4", "2", "8", "8", "0", "1", "7", "7", "9", "0", "4">>
    \o <<"1", "7", "4", "4", "9", "7", "7", "9", "2">>

\* the natural d is exactly a double: its odd part is below 2^53
RECURSIVE ExactInt(_)
ExactInt(d) ==
    IF DigitsGeq(Two53, d) THEN TRUE
    ELSE IF DigitVal(d[Len(d)]) % 2 = 1 THEN FALSE
    ELSE \E half \in {Halve(d)} : ExactInt(half)

NoValue == [kind |-> "none", int |-> <<>>, frac |-> <<>>]

Inf == [kind |-> "inf", int |-> <<>>, frac |-> <<>>]

Number(i, f) == [kind |-> "num", int |-> i, frac |-> f]

Zero == Number(<<>>, <<>>)

Half == Number(<<>>, <<"5">>)

One == Number(<<"1">>, <<>>)

\* the most significant decimal digits a double always keeps (DBL_DIG)
FloatDigits == 15

\* float(num_str) for num_str matching \d+(?:\.\d+)?|\.\d+
ToFloat(num_str) ==
    Let(num_str, LAMBDA t :
        LET dots == {k \in 1..Len(t) : t[k] = "."}
            dot  == IF dots = {} THEN Len(t) + 1 ELSE SetMin(dots)
        IN  Let(<<StripLeadingZeros(SubSeq(t, 1, dot - 1)),
                  StripTrailingZeros(SubSeq(t, dot + 1, Len(t)))>>, LAMBDA n :
                LET i == n[1]
                    f == n[2]
                IN  IF DigitsGeq(i, FloatOverflow) THEN Inf
                    ELSE IF f = <<>> /\ ExactInt(i) THEN Number(i, f)
                    ELSE IF f # <<>> /\ Len(i) + Len(f) <= FloatDigits
                    THEN Number(i, f)
                    ELSE [kind |-> "rounded", int |-> i, frac |-> f]))

\* str(int(v)) for a finite v that is the decimal it was read from
IntStr(v) == IF v.int = <<>> THEN <<"0">> ELSE v.int

\* v >= 10
AtLeastTen(v) == v.kind = "inf" \/ (v.kind \in {"num", "rounded"} /\ Len(v.int) >= 2)

\* v >= 0: the number pattern has no sign, so every value read is
NonNegative(v) == v.kind \in {"num", "rounded", "inf"}

\* original_text == str(int(v)): a rounded double is an integer other than
\* the digits it was read from, so its rendering never equals them
IsIntRendering(original_text, v) == v.kind = "num" /\ original_text = IntStr(v)

----------------------------------------------------------------------------
(* The regular expressions of find_nearest_number *)

\* hi, hi - 1, ..., lo
Descending(hi, lo) == [k \in 1..(hi - lo + 1) |-> hi - k + 1]

\* (\d+(?:\.\d+)?|\.\d+) tried at position i: the ends (exclusive) of the
\* strings it can match there, in the order backtracking offers them
NumEnds(s, i) ==
    IF IsDigit(CharAt(s, i))
    THEN Let(DigitsEnd(s, i), LAMBDA j :
            Let(IF CharAt(s, j) = "." /\ IsDigit(CharAt(s, j + 1))
                THEN DigitsEnd(s, j + 1)
                ELSE j, LAMBDA k :
                (IF k > j THEN Descending(k, j + 2) ELSE <<>>)
                    \o Descending(j, i + 1)))
    ELSE IF CharAt(s, i) = "." /\ IsDigit(CharAt(s, i + 1))
    THEN Descending(DigitsEnd(s, i + 1), i + 2)
    ELSE <<>>

\* what each pattern requires after the number, which ends before position e:
\*   "gram"     \s*g(?:ram|rams)?  with re.IGNORECASE      (line 53)
\*   "not_g"    (?!\s*(?:g|%))                                (line 67)
\*   "general"  (?!\s*[%])                                    (line 93)
Follows(pattern, s, e) ==
    LET c == CharAt(s, SkipSpace(s, e))
    IN  CASE pattern = "gram"    -> c \in {"g", "G"}
          [] pattern = "not_g"   -> c \notin {"g", "%"}
          [] pattern = "general" -> c # "%"

\* the end of the number the pattern matches at position i (0: no match)
MatchEnd(pattern, s, i) ==
    Let(NumEnds(s, i), LAMBDA ends :
        IF \E n \in 1..Len(ends) : Follows(pattern, s, ends[n])
        THEN ends[CHOOSE n \in 1..Len(ends) :
                    /\ Follows(pattern, s, ends[n])
                    /\ \A m \in 1..(n - 1) : ~Follows(pattern, s, ends[m])]
        ELSE 0)

\* where the whole match ends: the gram pattern consumes the unit as well
MatchStop(pattern, s, e) ==
    IF pattern = "gram"
    THEN LET p == SkipSpace(s, e)
         IN  IF \A k \in 1..3 : LowerChar(CharAt(s, p + k)) = <<"r", "a", "m">>[k]
             THEN p + 4 ELSE p + 1
    ELSE e

\* re.findall(pattern, s): the matched number strings, scanning from position i
RECURSIVE FindAll(_, _, _)
FindAll(pattern, s, i) ==
    IF /\ pattern = "gram" => \E p \in i..Len(s) : s[p] \in {"g", "G"}
       /\ \E p \in i..Len(s) : MatchEnd(pattern, s, p) # 0
    THEN Let(CHOOSE p \in i..Len(s) :
                /\ MatchEnd(pattern, s, p) # 0
                /\ \A q \in i..(p - 1) : MatchEnd(pattern, s, q) = 0, LAMBDA p :
            Let(MatchEnd(pattern, s, p), LAMBDA e :
                Let(MatchStop(pattern, s, e), LAMBDA stop :
                    <<SubSeq(s, p, e - 1)>> \o FindAll(pattern, s, stop))))
    ELSE <<>>

\* .replace('o', '0').replace('O', '0')
ReplaceO(s) ==
    Let(s, LAMBDA t :
        [i \in 1..Len(t) |-> IF t[i] \in {"o", "O"} THEN "0" ELSE t[i]])

\* the characters of the class [<|less than]
LessThanClass == {"<", "|", "l", "e", "s", " ", "t", "h", "a", "n"}

\* the same search without re.IGNORECASE, which LessThanOneIsHalf tells apart
LessThanOneGramCaseSensitive(s) ==
    \E i \in 1..Len(s) :
        /\ s[i] \in LessThanClass
        /\ LET p == SkipSpace(s, i + 1)
           IN  /\ CharAt(s, p) = "1"
               /\ CharAt(s, SkipSpace(s, p + 1)) = "g"

\* re.search(r"[<|less than]\s*1\s*g", s, re.IGNORECASE)
LessThanOneGram(s) ==
    \E i \in 1..Len(s) :
        /\ LowerChar(s[i]) \in LessThanClass
        /\ LET p == SkipSpace(s, i + 1)
           IN  /\ CharAt(s, p) = "1"
               /\ LowerChar(CharAt(s, SkipSpace(s, p + 1))) = "g"

\* re.search(re.escape(num_str) + r"\s*%", s)
PercentFollows(s, num_str) ==
    \E n \in {num_str} : \E i \in 1..Len(s) :
        /\ OccursAt(s, n, i)
        /\ CharAt(s, SkipSpace(s, i + Len(n))) = "%"

\* lines 70-82: the candidate chosen when prioritize_grams is false
SelectedValueStr(numbers_not_g) ==
    LET nonzero == {n \in 1..Len(numbers_not_g) :
                        numbers_not_g[n] \notin {<<"0">>, <<"0", ".", "0">>}}
    IN  IF Len(numbers_not_g) > 1 /\ nonzero # {}
        THEN numbers_not_g[SetMin(nonzero)]
        ELSE numbers_not_g[1]

\* lines 93-118: the general fallback
GeneralFallback(processed_segment) ==
    Let(FindAll("general", processed_segment, 1), LAMBDA all_numbers_general :
        IF all_numbers_general = <<>> THEN NoValue
        ELSE IF PercentFollows(processed_segment, all_numbers_general[1])
        THEN IF /\ Len(all_numbers_general) > 1
                /\ ~PercentFollows(processed_segment, all_numbers_general[2])
             THEN ToFloat(all_numbers_general[2])
             ELSE NoValue
        ELSE ToFloat(all_numbers_general[1]))

\* find_nearest_number(segment, grams)
FindNearestNumber(segment, grams) ==
    Let(ReplaceO(segment), LAMBDA processed_segment :
        IF LessThanOneGram(processed_segment) THEN Half
        ELSE Let(IF grams THEN FindAll("gram", processed_segment, 1) ELSE <<>>,
                 LAMBDA gram_matches :
            IF gram_matches # <<>> THEN ToFloat(gram_matches[1])
            ELSE Let(FindAll("not_g", processed_segment, 1), LAMBDA numbers_not_g :
                IF ~grams /\ numbers_not_g # <<>>
                THEN ToFloat(SelectedValueStr(numbers_not_g))
                ELSE GeneralFallback(processed_segment))))

----------------------------------------------------------------------------
(* parse_nutrition_text_proximity *)

\* the keys of `keywords`, in the order the main loop visits them
KeyOrder ==
    <<"total_fat", "protein", "total_carbohydrate", "dietary_fiber",
      "total_sugars", "servings">>

Keys == {KeyOrder[k] : k \in 1..Len(KeyOrder)}

\* keywords[key]
Terms(key) ==
    CASE key = "total_fat" ->
            <<<<"t", "o", "t", "a", "l", " ", "f", "a", "t">>, <<"t", "o", "t", "a", "l", " ", "f", "a", "l">>, <<"f", "a", "t">>, <<"g", "r", "a", "s", "a", " ", "t", "o", "t", "a", "l">>, <<"g", "r", "a", "s", "a">>>>
      [] key = "protein" ->
            <<<<"p", "r", "o", "t", "e", "i", "n">>, <<"p", "r", "o", "t", "e", "í", "n", "a", "s">>, <<"p", "r", "o", "t", "e", "í", "n", "a">>>>
      [] key = "total_carbohydrate" ->
            <<<<"t", "o", "t", "a", "l", " ", "c", "a", "r", "b", "o", "h", "y", "d", "r", "a", "t", "e">>, <<"c", "a", "r", "b", "o", "h", "y", "d", "r", "a", "t", "e">>, <<"c", "a", "r", "b", "o", "h", "i", "d", "r", "a", "t", "o", " ", "t", "o", "t", "a", "l">>,
              <<"c", "a", "r", "b", "o", "h", "i", "d", "r", "a", "t", "o">>>>
      [] key = "dietary_fiber" ->
            <<<<"d", "i", "e", "t", "a", "r", "y", " ", "f", "i", "b", "e", "r">>, <<"f", "i", "b", "e", "r">>, <<"f", "i", "b", "r", "a", " ", "d", "i", "e", "t", "é", "t", "i", "c", "a">>, <<"f", "i", "b", "r", "a">>,
              <<"d", "i", "a", "r", "y", " ", "t", "i", "b", "e", "r">>, <<"d", "e", "a", "r", "y", " ", "h", "e", "r">>>>
      [] key = "total_sugars" ->
            <<<<"t", "o", "t", "a", "l", " ", "s", "u", "g", "a", "r", "s">>, <<"a", "z", "ú", "c", "a", "r", "e", "s", " ", "t", "o", "t", "a", "l", "e", "s">>, <<"s", "u", "g", "a", "r", "s">>, <<"a", "z", "ú", "c", "a", "r", "e", "s">>>>
      [] key = "servings" ->
            <<<<"s", "e", "r", "v", "i", "n", "g", "s", " ", "p", "e", "r", " ", "c", "o", "n", "t", "a", "i", "n", "e", "r">>, <<"r", "a", "c", "i", "o", "n", "e", "s", " ", "p", "o", "r", " ", "e", "n", "v", "a", "s", "e">>>>

primary_sugar_terms == <<<<"t", "o", "t", "a", "l", " ", "s", "u", "g", "a", "r", "s">>, <<"a", "z", "ú", "c", "a", "r", "e", "s", " ", "t", "o", "t", "a", "l", "e", "s">>>>

\* text.split('\n')
RECURSIVE SplitNewline(_)
SplitNewline(s) ==
    Let({i \in 1..Len(s) : s[i] = "\n"}, LAMBDA nl :
        IF nl = {} THEN <<s>>
        ELSE Let(SubSeq(s, SetMin(nl) + 1, Len(s)), LAMBDA rest :
                <<SubSeq(s, 1, SetMin(nl) - 1)>> \o SplitNewline(rest)))

NonEmpty(s) == s # <<>>

\* [line.strip() for line in text.lower().split('\n') if line.strip()]
Lines(t) ==
    Let(Lower(t), LAMBDA processed_text :
        Let(SplitNewline(processed_text), LAMBDA parts :
            SelectSeq([k \in 1..Len(parts) |-> Strip(parts[k])], NonEmpty)))

\* the nested loops of lines 185-194 and 200-208: the first line that holds
\* one of `terms`, and the first of `terms` it holds; line is an index from 0
\* as in the code, -1 when no line holds one
LocateTerm(terms, all_lines) ==
    Let(terms, LAMBDA ts :
        Let({i \in 1..Len(all_lines) :
                \E k \in 1..Len(ts) : Contains(all_lines[i], ts[k])}, LAMBDA hits :
            IF hits = {} THEN [line |-> -1, term |-> <<>>]
            ELSE LET i == SetMin(hits)
                     k == SetMin({n \in 1..Len(ts) : Contains(all_lines[i], ts[n])})
                 IN  [line |-> i - 1, term |-> ts[k]]))

\* one scan over the whole term list for every key, which
\* PrimarySugarTermsFirst tells apart
LocateWithoutPrimary(key, all_lines) == LocateTerm(Terms(key), all_lines)

\* lines 182-208
LocateKeyword(key, all_lines) ==
    IF key = "total_sugars"
    THEN Let(LocateTerm(primary_sugar_terms, all_lines), LAMBDA primary :
            IF primary.line # -1 THEN primary
            ELSE LocateTerm(Terms(key), all_lines))
    ELSE LocateTerm(Terms(key), all_lines)

\* \b before position i
WordBoundary(s, i) == IsWordChar(CharAt(s, i - 1)) # IsWordChar(CharAt(s, i))

zero_words == <<<<"0">>, <<"o">>, <<"z", "e", "r", "o">>>>

\* re.search(zero_pattern, s, re.IGNORECASE) for one of
\* \b0\s*g\b, \bo\s*g\b, \bzero\s*g\b
ZeroPatternIn(s) ==
    \E t \in {s} : \E lower \in {Lower(t)} :
    \E n \in 1..Len(zero_words) : \E i \in 1..Len(t) :
        /\ WordBoundary(t, i)
        /\ OccursAt(lower, zero_words[n], i)
        /\ LET p == SkipSpace(t, i + Len(zero_words[n]))
           IN  /\ LowerChar(CharAt(t, p)) = "g"
               /\ WordBoundary(t, p + 1)

\* the check without its search of the matched line, which
\* ZeroWhenNoNumber tells apart
check_without_matched_line(segment_after_keyword, line_where_keyword_found, next_line_text_for_zero_check) ==
    \/ segment_after_keyword # <<>> /\ ZeroPatternIn(segment_after_keyword)
    \/ /\ Strip(segment_after_keyword) = <<>>
       /\ next_line_text_for_zero_check # <<>>
       /\ ZeroPatternIn(next_line_text_for_zero_check)

\* check_for_explicit_zero
check_for_explicit_zero(segment_after_keyword, line_where_keyword_found, next_line_text_for_zero_check) ==
    \/ segment_after_keyword # <<>> /\ ZeroPatternIn(segment_after_keyword)
    \/ ZeroPatternIn(line_where_keyword_found)
    \/ /\ Strip(segment_after_keyword) = <<>>
       /\ next_line_text_for_zero_check # <<>>
       /\ ZeroPatternIn(next_line_text_for_zero_check)

significant_source_phrases ==
    <<<<"n", "o", "t", " ", "a", " ", "s", "i", "g", "n", "i", "f", "i", "c", "a", "n", "t", " ", "s", "o", "u", "r", "c", "e">>, <<"i", "n", "s", "i", "g", "n", "i", "f", "i", "c", "a", "n", "t", " ", "s", "o", "u", "r", "c", "e">>>>

\* lines 278-285
SourcePhraseFound(line_where_keyword_was_found, next_line_for_zero_check) ==
    \E n \in 1..Len(significant_source_phrases) :
        \/ Contains(Lower(line_where_keyword_was_found), significant_source_phrases[n])
        \/ Contains(Lower(next_line_for_zero_check), significant_source_phrases[n])

DecimalShiftKeys == {"total_carbohydrate", "dietary_fiber", "total_sugars"}

TrailingNineKeys ==
    {"protein", "total_fat", "total_carbohydrate", "dietary_fiber", "total_sugars"}

\* lines 235-247: the g->0 heuristic. int() of an infinite float raises
\* OverflowError, which nothing catches.
DecimalShift(key, value, original_text) ==
    IF key \in DecimalShiftKeys /\ AtLeastTen(value) /\ original_text # <<>>
    THEN IF value.kind = "inf" THEN [raised |-> TRUE, value |-> value]
         ELSE IF /\ IsIntRendering(original_text, value)
                 /\ IntStr(value)[Len(IntStr(value))] = "0"
         THEN [raised |-> FALSE,
               value  |-> Number(SubSeq(value.int, 1, Len(value.int) - 1), <<>>)]
         ELSE [raised |-> FALSE, value |-> value]
    ELSE [raised |-> FALSE, value |-> value]

\* lines 249-264: the g->9 heuristic
TrailingNine(key, value, original_text) ==
    IF key \in TrailingNineKeys /\ original_text # <<>>
    THEN IF value.kind = "inf" THEN [raised |-> TRUE, value |-> value]
         ELSE IF /\ IsIntRendering(original_text, value)
                 /\ original_text[Len(original_text)] = "9"
                 /\ Len(original_text) > 1
         THEN [raised |-> FALSE,
               value  |-> ToFloat(SubSeq(original_text, 1, Len(original_text) - 1))]
         ELSE [raised |-> FALSE, value |-> value]
    ELSE [raised |-> FALSE, value |-> value]

\* lines 233-266: both heuristics, in the order of the code
Heuristics(key, value, original_text) ==
    Let(DecimalShift(key, value, original_text), LAMBDA shifted :
        IF shifted.raised THEN shifted
        ELSE TrailingNine(key, shifted.value, original_text))

\* the reading without the retry on the following line, which
\* NextLineFallback tells apart
ParsedValueSameLineOnly(key, loc, all_lines) ==
    LET current_line_text == all_lines[loc.line + 1]
    IN  IF key = "servings"
        THEN [value |-> FindNearestNumber(current_line_text, FALSE),
              segment_after_keyword |-> <<>>,
              original_text |-> <<>>]
        ELSE Let(Tail_From(current_line_text,
                           Find(current_line_text, loc.term) + Len(loc.term)),
                 LAMBDA segment_after_keyword :
             Let(FindNearestNumber(segment_after_keyword, TRUE), LAMBDA on_segment :
                [value |-> on_segment,
                 segment_after_keyword |-> segment_after_keyword,
                 original_text |-> IF on_segment # NoValue
                                   THEN Strip(segment_after_keyword) ELSE <<>>]))

\* lines 210-231: the number read for a key whose keyword is on line
\* loc.line, and the text it was read from
ParsedValue(key, loc, all_lines) ==
    LET current_line_text == all_lines[loc.line + 1]
        has_next == loc.line + 1 < Len(all_lines)
        next_line_segment == IF has_next THEN all_lines[loc.line + 2] ELSE <<>>
    IN  IF key = "servings"
        THEN [value |-> FindNearestNumber(current_line_text, FALSE),
              segment_after_keyword |-> <<>>,
              original_text |-> <<>>]
        ELSE Let(Tail_From(current_line_text,
                           Find(current_line_text, loc.term) + Len(loc.term)),
                 LAMBDA segment_after_keyword :
             Let(FindNearestNumber(segment_after_keyword, TRUE), LAMBDA on_segment :
                IF on_segment # NoValue
                THEN [value |-> on_segment,
                      segment_after_keyword |-> segment_after_keyword,
                      original_text |-> Strip(segment_after_keyword)]
                ELSE IF ~has_next
                THEN [value |-> NoValue,
                      segment_after_keyword |-> segment_after_keyword,
                      original_text |-> <<>>]
                ELSE Let(FindNearestNumber(next_line_segment, TRUE), LAMBDA on_next :
                        [value |-> on_next,
                         segment_after_keyword |-> segment_after_keyword,
                         original_text |-> IF on_next # NoValue
                                           THEN Strip(next_line_segment)
                                           ELSE <<>>])))

\* lines 268-288: the value of a key for which no number was parsed
ZeroOrDefault(old, segment_after_keyword, loc, all_lines) ==
    LET line_where_keyword_was_found == all_lines[loc.line + 1]
        next_line_for_zero_check ==
            IF loc.line + 1 < Len(all_lines) THEN all_lines[loc.line + 2] ELSE <<>>
    IN  IF check_for_explicit_zero(segment_after_keyword,
                                   line_where_keyword_was_found,
                                   next_line_for_zero_check)
        THEN Zero
        ELSE IF SourcePhraseFound(line_where_keyword_was_found,
                                  next_line_for_zero_check)
        THEN Zero
        ELSE old

\* the iteration with 0.0 for a key whose keyword is on no line, which
\* DefaultWithoutKeyword tells apart
KeyOutcomeZeroDefault(key, loc, all_lines, old) ==
    IF loc.line = -1 THEN [raised |-> FALSE, value |-> Zero]
    ELSE Let(ParsedValue(key, loc, all_lines), LAMBDA parsed :
            IF parsed.value # NoValue
            THEN Heuristics(key, parsed.value, parsed.original_text)
            ELSE [raised |-> FALSE,
                  value  |-> ZeroOrDefault(old, parsed.segment_after_keyword,
                                           loc, all_lines)])

\* one iteration of the main loop (lines 172-293) for `key`: whether it
\* raises, and otherwise the value extracted_data[key] holds after it
KeyOutcome(key, loc, all_lines, old) ==
    IF loc.line = -1 THEN [raised |-> FALSE, value |-> old]
    ELSE Let(ParsedValue(key, loc, all_lines), LAMBDA parsed :
            IF parsed.value # NoValue
            THEN Heuristics(key, parsed.value, parsed.original_text)
            ELSE [raised |-> FALSE,
                  value  |-> ZeroOrDefault(old, parsed.segment_after_keyword,
                                           loc, all_lines)])

----------------------------------------------------------------------------
(* Inputs *)

\* the longest segment given to find_nearest_number, in tokens
MaxSegTokens == 3

\* the most lines of a text given to the parser
MaxLines == 2

\* a run of n nines
Nines(n) == [i \in 1..n |-> "9"]

\* the pieces segments are put together from
SegTokens ==
    {<<"0">>, <<"1">>, <<"5">>, <<".">>, <<"g">>, <<"G">>, <<"%">>, <<" ">>, <<"<">>, <<"l", "e", "s", "s", " ", "t", "h", "a", "n">>, <<"L", "E", "S", "S", " ", "T", "H", "A", "N">>,
     <<"o">>, <<"x">>, <<"1", "g">>, <<"5", "g">>, <<"1", "5", "%">>}

RECURSIVE Concats(_, _)
Concats(tokens, n) ==
    IF n = 0 THEN {<<>>}
    ELSE LET shorter == Concats(tokens, n - 1)
         IN  shorter \cup {s \o t : s \in shorter, t \in tokens}

Segments == Concats(SegTokens, MaxSegTokens)

\* lines with a keyword and nothing after it
KeywordLines ==
    {<<"T", "o", "t", "a", "l", " ", "F", "a", "t">>,
     <<"P", "r", "o", "t", "e", "i", "n">>,
     <<"T", "o", "t", "a", "l", " ", "C", "a", "r", "b", "o", "h", "y", "d", "r", "a", "t", "e">>,
     <<"D", "i", "e", "t", "a", "r", "y", " ", "F", "i", "b", "e", "r">>,
     <<"S", "u", "g", "a", "r", "s">>,
     <<"T", "o", "t", "a", "l", " ", "S", "u", "g", "a", "r", "s">>,
     <<"S", "e", "r", "v", "i", "n", "g", "s", " ", "P", "e", "r", " ", "C", "o", "n", "t", "a", "i", "n", "e", "r">>}

\* lines with a bare number, after a keyword or alone
ValueLines ==
    {<<"T", "o", "t", "a", "l", " ", "F", "a", "t", " ", "3", "0">>,
     <<"P", "r", "o", "t", "e", "i", "n", " ", "5", "9">>,
     <<"P", "r", "o", "t", "e", "i", "n", " ", "9">>,
     <<"T", "o", "t", "a", "l", " ", "C", "a", "r", "b", "o", "h", "y", "d", "r", "a", "t", "e", " ", "3", "0">>,
     <<"T", "o", "t", "a", "l", " ", "C", "a", "r", "b", "o", "h", "y", "d", "r", "a", "t", "e", " ", "5", "9">>,
     <<"S", "u", "g", "a", "r", "s", " ", "3", "0">>,
     <<"S", "e", "r", "v", "i", "n", "g", "s", " ", "P", "e", "r", " ", "C", "o", "n", "t", "a", "i", "n", "e", "r", " ", "3", "0">>,
     <<"3", "0">>}

\* lines with a unit, a percentage, a zero or a phrase
OtherLines ==
    {<<"T", "o", "t", "a", "l", " ", "F", "a", "t", " ", "0", "g">>,
     <<"P", "r", "o", "t", "e", "i", "n", " ", "5", "g">>,
     <<"T", "o", "t", "a", "l", " ", "F", "a", "t", " ", "3", "g", " ", "1", "5", "%">>,
     <<"l", "e", "s", "s", " ", "t", "h", "a", "n", " ", "1", "g">>,
     <<"0", "g", " ", "T", "o", "t", "a", "l", " ", "F", "a", "t">>,
     <<"1", "0", "0", "g", " ", "T", "o", "t", "a", "l", " ", "F", "a", "t">>,
     <<"N", "o", "t", " ", "a", " ", "s", "i", "g", "n", "i", "f", "i", "c", "a", "n", "t", " ", "s", "o", "u", "r", "c", "e", " ", "o", "f", " ", "P", "r", "o", "t", "e", "i", "n">>}

LineForms == KeywordLines \cup ValueLines \cup OtherLines

\* the texts of up to n lines
RECURSIVE Joined(_)
Joined(n) ==
    IF n = 0 THEN {<<>>}
    ELSE LET shorter == Joined(n - 1)
         IN  shorter \cup {s \o <<"\n">> \o l : s \in shorter, l \in LineForms}

Texts == Joined(MaxLines)

\* digit runs at the limits of a double: 2^53 has Len(Two53) digits, the
\* largest double Len(FloatOverflow)
LongNumbers ==
    {Nines(n) \o z : n \in {Len(Two53), Len(FloatOverflow)}, z \in {<<>>, <<"0">>}}

LongTexts == {k \o <<" ">> \o d : k \in KeywordLines, d \in LongNumbers}

----------------------------------------------------------------------------
(* find_nearest_number as a call on its own *)

\* no invocation is running side by side, no request is handled
NoCalls == calls = <<>> /\ request = <<>>

ParserIdle ==
    /\ text = <<>>
    /\ lines = <<>>
    /\ key_index = 0
    /\ pc = "idle"
    /\ extracted_data = [k \in Keys |-> One]
    /\ keyword_found_on_line = [k \in Keys |-> -1]
    /\ term = [k \in Keys |-> <<>>]

InitExtract ==
    /\ text_segment \in Segments
    /\ prioritize_grams \in BOOLEAN
    /\ fnn_pc = "call"
    /\ fnn_result = NoValue
    /\ ParserIdle
    /\ NoCalls

find_nearest_number ==
    /\ fnn_pc = "call"
    /\ fnn_result' = FindNearestNumber(text_segment, prioritize_grams)
    /\ fnn_pc' = "return"
    /\ UNCHANGED <<text_segment, prioritize_grams>>
    /\ UNCHANGED parse_vars
    /\ UNCHANGED <<calls, request>>

NextExtract == find_nearest_number

SpecExtract == InitExtract /\ [][NextExtract]_vars

----------------------------------------------------------------------------
(* parse_nutrition_text_proximity: the main loop, one key at a time *)

\* lines 123-146 and the locals each iteration resets (lines 174-180)
ParserStart ==
    /\ lines = Lines(text)
    /\ key_index = 0
    /\ pc = "loop"
    /\ extracted_data = [k \in Keys |-> One]
    /\ keyword_found_on_line = [k \in Keys |-> -1]
    /\ term = [k \in Keys |-> <<>>]
    /\ text_segment = <<>>
    /\ prioritize_grams = TRUE
    /\ fnn_pc = "idle"
    /\ fnn_result = NoValue

Init == text \in Texts /\ ParserStart /\ NoCalls

InitLong == text \in LongTexts /\ ParserStart /\ NoCalls

\* one iteration of `for key, terms in keywords.items()`
ProcessKey ==
    /\ pc = "loop"
    /\ key_index < Len(KeyOrder)
    /\ \E key \in {KeyOrder[key_index + 1]} :
       \E loc \in {LocateKeyword(key, lines)} :
       \E outcome \in {KeyOutcome(key, loc, lines, extracted_data[key])} :
           /\ keyword_found_on_line' = [keyword_found_on_line EXCEPT ![key] = loc.line]
           /\ term' = [term EXCEPT ![key] = loc.term]
           /\ IF outcome.raised
              THEN /\ pc' = "raised"
                   /\ UNCHANGED <<key_index, extracted_data>>
              ELSE /\ extracted_data' = [extracted_data EXCEPT ![key] = outcome.value]
                   /\ key_index' = key_index + 1
                   /\ pc' = pc
    /\ UNCHANGED <<text, lines, calls, request>>
    /\ UNCHANGED fnn_vars

\* return extracted_data
Return ==
    /\ pc = "loop"
    /\ key_index = Len(KeyOrder)
    /\ pc' = "returned"
    /\ UNCHANGED <<text, lines, key_index, extracted_data, keyword_found_on_line,
                   term, calls, request>>
    /\ UNCHANGED fnn_vars

Next == ProcessKey \/ Return

Spec == Init /\ [][Next]_vars

\* the same parser on digit runs at the limits of a double
SpecLong == InitLong /\ [][Next]_vars

----------------------------------------------------------------------------
(* parse_nutrition_text_proximity called by several requests side by side,   *)
(* each request calling it again after it has returned                       *)

\* the requests running side by side
Threads == {1, 2}

\* the most calls one request makes, one after the other
MaxCalls == 2

\* the texts the calls are made on
CallTexts ==
    {<<>>,
     <<"T", "o", "t", "a", "l", " ", "F", "a", "t", " ", "0", "g", "\n", "P", "r", "o", "t", "e", "i", "n", " ", "5", "g">>,
     <<"P", "r", "o", "t", "e", "i", "n", " ", "5", "9">>,
     <<"D", "i", "e", "t", "a", "r", "y", " ", "F", "i", "b", "e", "r", "\n", "l", "e", "s", "s", " ", "t", "h", "a", "n", " ", "1", "g">>,
     <<"S", "u", "g", "a", "r", "s", " ", "3", "0", "\n", "T", "o", "t", "a", "l", " ", "S", "u", "g", "a", "r", "s">>}

\* lines 123-146: the locals of a call on text t, the n-th of its request;
\* every one of them is made anew by the call
Locals(t, n) ==
    [text |-> t, lines |-> Lines(t), key_index |-> 0, pc |-> "loop",
     extracted_data |-> [k \in Keys |-> One], made |-> n]

\* an iteration that writes the value into the dict of every running call,
\* which ResultDependsOnTextOnly tells apart
IterationOnSharedData(c, all) ==
    LET own == all[c]
        key == KeyOrder[own.key_index + 1]
    IN  Let(LocateKeyword(key, own.lines), LAMBDA loc :
        Let(KeyOutcome(key, loc, own.lines, own.extracted_data[key]), LAMBDA outcome :
            IF outcome.raised
            THEN [all EXCEPT ![c].pc = "raised"]
            ELSE [d \in DOMAIN all |->
                    IF d = c
                    THEN [own EXCEPT !.extracted_data[key] = outcome.value,
                                     !.key_index = own.key_index + 1]
                    ELSE [all[d] EXCEPT !.extracted_data[key] = outcome.value]]))

\* lines 172-293: one iteration of the main loop by call c; all it reads and
\* all it writes are its own locals
Iteration(c, all) ==
    LET own == all[c]
        key == KeyOrder[own.key_index + 1]
    IN  Let(LocateKeyword(key, own.lines), LAMBDA loc :
        Let(KeyOutcome(key, loc, own.lines, own.extracted_data[key]), LAMBDA outcome :
            IF outcome.raised
            THEN [all EXCEPT ![c].pc = "raised"]
            ELSE [all EXCEPT ![c].extracted_data[key] = outcome.value,
                             ![c].key_index = own.key_index + 1]))

InitCalls ==
    /\ calls \in [Threads -> {Locals(t, 1) : t \in CallTexts}]
    /\ ParserIdle
    /\ request = <<>>
    /\ text_segment = <<>>
    /\ prioritize_grams = TRUE
    /\ fnn_pc = "idle"
    /\ fnn_result = NoValue

CallProcessKey(c) ==
    /\ calls[c].pc = "loop"
    /\ calls[c].key_index < Len(KeyOrder)
    /\ calls' = Iteration(c, calls)
    /\ UNCHANGED <<fnn_vars, parse_vars, request>>

\* return extracted_data
CallReturn(c) ==
    /\ calls[c].pc = "loop"
    /\ calls[c].key_index = Len(KeyOrder)
    /\ calls' = [calls EXCEPT ![c].pc = "returned"]
    /\ UNCHANGED <<fnn_vars, parse_vars, request>>

\* the request calls the parser again, on any text
CallAgain(c) ==
    /\ calls[c].pc \in {"returned", "raised"}
    /\ calls[c].made < MaxCalls
    /\ \E t \in CallTexts : calls' = [calls EXCEPT ![c] = Locals(t, calls[c].made + 1)]
    /\ UNCHANGED <<fnn_vars, parse_vars, request>>

NextCalls ==
    \E c \in Threads : CallProcessKey(c) \/ CallReturn(c) \/ CallAgain(c)

SpecCalls == InitCalls /\ [][NextCalls]_vars

----------------------------------------------------------------------------
(* process_label: the handler of POST /process-label, one request from the  *)
(* call to the response the client gets                                      *)

\* what image.read() may do: return no bytes, return bytes, or fail
Reads == {"empty", "bytes", "fails"}

\* what vision_client.text_detection may do: return a response, or raise
\* ServiceUnavailable, another GoogleAPIError, or any other exception
Detections == {"response", "ServiceUnavailable", "GoogleAPIError", "Exception"}

\* response.error.message: empty when the detection had no functional error
ErrorMessages == {<<>>, <<"B", "a", "d", " ", "i", "m", "a", "g", "e", " ", "d", "a", "t", "a">>}

\* response.full_text_annotation.text; on the last one the parser raises
LabelTexts ==
    {<<>>,
     <<"P", "r", "o", "t", "e", "i", "n", " ", "5", "g">>,
     <<"T", "o", "t", "a", "l", " ", "F", "a", "t", " ", "0", "g", "\n", "P", "r", "o", "t", "e", "i", "n", " ", "5", "g">>,
     <<"P", "r", "o", "t", "e", "i", "n", " ">> \o Nines(Len(FloatOverflow))}

\* the exceptions of the handler; response.error is a Status message of the
\* Vision response, no exception
ExceptionTypes ==
    {"HTTPException", "ServiceUnavailable", "GoogleAPIError", "OverflowError",
     "TypeError", "Exception"}

NoException == [type |-> "none", status_code |-> 0]

HTTPException(code) == [type |-> "HTTPException", status_code |-> code]

Raised(type) == [type |-> type, status_code |-> 0]

ResponseError == [type |-> "Status", status_code |-> 0]

\* raise exc from cause: the cause must derive from BaseException, else the
\* statement raises TypeError in place of exc
RaiseFrom(exc, cause) ==
    IF cause.type \in ExceptionTypes THEN exc ELSE Raised("TypeError")

\* lines 364-371
default_data_for_empty_text == [k \in Keys |-> One]

\* line 377: the whole call of the parser on the extracted text; what it
\* holds when a key raises is lost with its locals
RECURSIVE ParserRun(_, _, _)
ParserRun(all_lines, data, n) ==
    IF n > Len(KeyOrder) THEN [raised |-> FALSE, data |-> data]
    ELSE Let(KeyOrder[n], LAMBDA key :
         Let(LocateKeyword(key, all_lines), LAMBDA loc :
         Let(KeyOutcome(key, loc, all_lines, data[key]), LAMBDA outcome :
             IF outcome.raised THEN [raised |-> TRUE, data |-> data]
             ELSE ParserRun(all_lines,
                            [data EXCEPT ![key] = outcome.value], n + 1))))

ParsedData(t) ==
    Let(Lines(t), LAMBDA ls : ParserRun(ls, [k \in Keys |-> One], 1))

\* a request as it arrives, with all that its environment will answer
Request(client, read, detection, message, full_text) ==
    [vision_client |-> client, read |-> read, detection |-> detection,
     error_message |-> message, extracted_text |-> full_text,
     pc |-> "called", exc |-> NoException, sent |-> NoException,
     status_code |-> 0,
     body |-> [k \in Keys |-> NoValue]]

InitLabel ==
    /\ request \in {Request(c, r, d, m, t) :
                        c \in BOOLEAN, r \in Reads, d \in Detections,
                        m \in ErrorMessages, t \in LabelTexts}
    /\ calls = <<>>
    /\ ParserIdle
    /\ text_segment = <<>>
    /\ prioritize_grams = TRUE
    /\ fnn_pc = "idle"
    /\ fnn_result = NoValue

\* the handler is left by an exception that goes to the client as it is
Fail(exc) ==
    request' = [request EXCEPT !.pc = "responded", !.sent = exc,
                               !.status_code = exc.status_code]

\* an exception is raised inside the try of line 312
RaiseInTry(exc) ==
    request' = [request EXCEPT !.pc = "except", !.exc = exc]

Respond(data) ==
    request' = [request EXCEPT !.pc = "responded", !.status_code = 200,
                               !.body = data]

\* lines 305-310, before the try
CheckClient ==
    /\ request.pc = "called"
    /\ IF ~request.vision_client
       THEN Fail(HTTPException(500))
       ELSE request' = [request EXCEPT !.pc = "read"]
    /\ UNCHANGED <<fnn_vars, parse_vars, calls>>

\* lines 314-316
ReadImage ==
    /\ request.pc = "read"
    /\ CASE request.read = "fails" -> RaiseInTry(Raised("Exception"))
         [] request.read = "empty" -> RaiseInTry(HTTPException(400))
         [] OTHER -> request' = [request EXCEPT !.pc = "detect"]
    /\ UNCHANGED <<fnn_vars, parse_vars, calls>>

\* lines 323-337
TextDetection ==
    /\ request.pc = "detect"
    /\ CASE request.detection = "response" ->
                request' = [request EXCEPT !.pc = "check"]
         [] request.detection = "ServiceUnavailable" ->
                RaiseInTry(RaiseFrom(HTTPException(503),
                                     Raised("ServiceUnavailable")))
         [] request.detection = "GoogleAPIError" ->
                RaiseInTry(RaiseFrom(HTTPException(502),
                                     Raised("GoogleAPIError")))
         [] OTHER -> RaiseInTry(Raised("Exception"))
    /\ UNCHANGED <<fnn_vars, parse_vars, calls>>

\* lines 341-347
CheckResponseError ==
    /\ request.pc = "check"
    /\ IF request.error_message # <<>>
       THEN RaiseInTry(RaiseFrom(HTTPException(400),
                                 ResponseError))
       ELSE request' = [request EXCEPT !.pc = "extract"]
    /\ UNCHANGED <<fnn_vars, parse_vars, calls>>

\* lines 350-373
ExtractText ==
    /\ request.pc = "extract"
    /\ IF request.extracted_text = <<>>
       THEN Respond(default_data_for_empty_text)
       ELSE request' = [request EXCEPT !.pc = "parse"]
    /\ UNCHANGED <<fnn_vars, parse_vars, calls>>

\* lines 377-382
ParseAndReturn ==
    /\ request.pc = "parse"
    /\ \E parsed \in {ParsedData(request.extracted_text)} :
        IF parsed.raised
        THEN RaiseInTry(Raised("OverflowError"))
        ELSE Respond(parsed.data)
    /\ UNCHANGED <<fnn_vars, parse_vars, calls>>

\* lines 384-395: the two except clauses of the try
Except ==
    /\ request.pc = "except"
    /\ IF request.exc.type = "HTTPException"
       THEN Fail(request.exc)
       ELSE Fail(RaiseFrom(HTTPException(500), request.exc))
    /\ UNCHANGED <<fnn_vars, parse_vars, calls>>

NextLabel ==
    \/ CheckClient
    \/ ReadImage
    \/ TextDetection
    \/ CheckResponseError
    \/ ExtractText
    \/ ParseAndReturn
    \/ Except

SpecLabel == InitLabel /\ [][NextLabel]_vars

----------------------------------------------------------------------------
(* What the properties speak of, said without the patterns of the code *)

\* t is written as a number: digits, at most one point, a digit at the end
IsNumberString(t) ==
    /\ t # <<>>
    /\ \A k \in 1..Len(t) : IsDigit(t[k]) \/ t[k] = "."
    /\ Cardinality({k \in 1..Len(t) : t[k] = "."}) <= 1
    /\ IsDigit(t[Len(t)])

\* s holds a number from position i up to position e - 1
NumberAt(s, i, e) == i < e /\ IsNumberString(SubSeq(s, i, e - 1))

\* after position e - 1 comes the unit g (gram, grams), any case
UnitFollows(s, e) == LowerChar(CharAt(s, SkipSpace(s, e))) = "g"

\* after position e - 1 comes a percent sign
PercentSignFollows(s, e) == CharAt(s, SkipSpace(s, e)) = "%"

\* the numbers of s that carry the unit g
GramNumbers(s) ==
    {n \in (1..Len(s)) \X (2..(Len(s) + 1)) :
        NumberAt(s, n[1], n[2]) /\ UnitFollows(s, n[2])}

\* the first of them, as text
FirstGramNumber(s) ==
    LET first == SetMin({n[1] : n \in GramNumbers(s)})
        end   == SetMax({n[2] : n \in {m \in GramNumbers(s) : m[1] = first}})
    IN  SubSeq(s, first, end - 1)

\* the numbers of s from position i on, each as long as it can be, as text
RECURSIVE NumbersFrom(_, _)
NumbersFrom(s, i) ==
    IF i > Len(s) THEN <<>>
    ELSE LET ends == {e \in (i + 1)..(Len(s) + 1) : NumberAt(s, i, e)}
         IN  IF ends = {} THEN NumbersFrom(s, i + 1)
             ELSE <<[text |-> SubSeq(s, i, SetMax(ends) - 1), end |-> SetMax(ends)]>>
                      \o NumbersFrom(s, SetMax(ends))

\* s says "<1g" or "less than 1g": optional whitespace around the 1, any case
LessThanExpression(s) ==
    \E i \in 2..(Len(s) + 1) :
        /\ \/ s[i - 1] = "<"
           \/ OccursAt(Lower(s), <<"l", "e", "s", "s", " ", "t", "h", "a", "n">>, i - 9)
        /\ CharAt(s, SkipSpace(s, i)) = "1"
        /\ UnitFollows(s, SkipSpace(s, i) + 1)

\* the segment as the extractor reads it: o and O stand for 0
Normalized == ReplaceO(text_segment)

Extracted == fnn_pc = "return"

----------------------------------------------------------------------------
(* Properties of find_nearest_number, under SpecExtract *)

\* C2: with prioritize_grams true, a segment that holds a number with the
\* unit g and no "<1g" / "less than 1g" expression yields the value of its
\* first such number, whatever else it holds.
GramNumberWins ==
    (Extracted /\ prioritize_grams /\ GramNumbers(Normalized) # {}
        /\ ~LessThanExpression(Normalized))
    => fnn_result = ToFloat(FirstGramNumber(Normalized))

\* C3: with prioritize_grams true, a segment with no number carrying the unit
\* g and no "<1g" expression yields its first number that no percent sign
\* follows, and no value when a percent sign follows every number.
FirstNonPercentNumber ==
    (Extracted /\ prioritize_grams /\ GramNumbers(Normalized) = {}
        /\ ~LessThanExpression(Normalized))
    => LET numbers == NumbersFrom(Normalized, 1)
           plain == {n \in 1..Len(numbers) :
                        ~PercentSignFollows(Normalized, numbers[n].end)}
       IN  fnn_result = IF plain = {} THEN NoValue
                        ELSE ToFloat(numbers[SetMin(plain)].text)

\* C5: a segment that says "<1g" or "less than 1g" yields 0.5, whatever
\* prioritize_grams is and whatever other numbers it holds.
LessThanOneIsHalf ==
    (Extracted /\ LessThanExpression(text_segment)) => fnn_result = Half

\* C5, its case: "<1g" beside another number that carries the unit g
LessThanOneBesideGrams ==
    /\ Extracted
    /\ prioritize_grams
    /\ LessThanExpression(text_segment)
    /\ \E n \in GramNumbers(Normalized) :
            SubSeq(Normalized, n[1], n[2] - 1) = <<"5">>
    /\ fnn_result = Half

----------------------------------------------------------------------------
(* What the properties of the parser speak of *)

IndexOf(key) == CHOOSE k \in 1..Len(KeyOrder) : KeyOrder[k] = key

\* the iteration for key has ended and bound its value
Done(key) == key_index >= IndexOf(key)

\* the iteration for key has ended or has raised
Attempted(key) ==
    Done(key) \/ (pc = "raised" /\ key_index = IndexOf(key) - 1)

Located(key) == keyword_found_on_line[key] # -1

MatchedLine(key) == lines[keyword_found_on_line[key] + 1]

\* the text after the matched keyword on its line
AfterKeyword(key) ==
    Tail_From(MatchedLine(key),
              Find(MatchedLine(key), term[key]) + Len(term[key]))

HasFollowingLine(key) == keyword_found_on_line[key] + 1 < Len(lines)

FollowingLine(key) ==
    IF HasFollowingLine(key) THEN lines[keyword_found_on_line[key] + 2]
    ELSE <<>>

\* the text that produced the number of a key other than servings
ProducingText(key) ==
    IF FindNearestNumber(AfterKeyword(key), TRUE) # NoValue
    THEN Strip(AfterKeyword(key))
    ELSE IF HasFollowingLine(key)
            /\ FindNearestNumber(FollowingLine(key), TRUE) # NoValue
    THEN Strip(FollowingLine(key))
    ELSE <<>>

\* a number is recovered for the key
NumberRecovered(key) ==
    IF key = "servings"
    THEN FindNearestNumber(MatchedLine(key), FALSE) # NoValue
    ELSE ProducingText(key) # <<>>

\* t is the decimal digits of an integer, as the integer is written
IsIntegerDigits(t) ==
    /\ t # <<>>
    /\ \A k \in 1..Len(t) : IsDigit(t[k])
    /\ Len(t) = 1 \/ t[1] # "0"

AllButLast(t) == SubSeq(t, 1, Len(t) - 1)

\* the integer written d, as a value
IntegerValue(d) == Number(StripLeadingZeros(d), <<>>)

\* key has a term on some line of the text
KeywordOccurs(key) ==
    \E n \in 1..Len(Terms(key)) : Contains(Lower(text), Terms(key)[n])

\* "0 g", "o g" or "zero g" somewhere in s, optional space, any case
LiteralZeroGram(s) ==
    \E n \in 1..Len(zero_words) : \E i \in 1..Len(s) :
        /\ OccursAt(Lower(s), zero_words[n], i)
        /\ LowerChar(CharAt(s, SkipSpace(s, i + Len(zero_words[n])))) = "g"

\* the same standing as words of their own: no letter, digit or underscore
\* right before the 0 / o / zero or right after the g
WholeZeroGram(s) ==
    \E n \in 1..Len(zero_words) : \E i \in 1..Len(s) :
        /\ OccursAt(Lower(s), zero_words[n], i)
        /\ ~IsWordChar(CharAt(s, i - 1))
        /\ LET g == SkipSpace(s, i + Len(zero_words[n]))
           IN  /\ LowerChar(CharAt(s, g)) = "g"
               /\ ~IsWordChar(CharAt(s, g + 1))

InsignificantSource(key) ==
    \E s \in {MatchedLine(key), FollowingLine(key)} :
        \/ Contains(Lower(s), <<"n", "o", "t", " ", "a", " ", "s", "i", "g", "n", "i", "f", "i", "c", "a", "n", "t", " ", "s", "o", "u", "r", "c", "e">>)
        \/ Contains(Lower(s), <<"i", "n", "s", "i", "g", "n", "i", "f", "i", "c", "a", "n", "t", " ", "s", "o", "u", "r", "c", "e">>)

----------------------------------------------------------------------------
(* Properties of parse_nutrition_text_proximity *)

\* C1: the parser never raises, and what it returns has exactly the six
\* keys, each bound to a number >= 0. Checked under SpecLong, where it fails.
ParserIsTotal ==
    /\ pc # "raised"
    /\ pc = "returned" =>
        /\ DOMAIN extracted_data = Keys
        /\ \A key \in Keys : NonNegative(extracted_data[key])

\* C4: a key none of whose terms occurs in the lower-cased text is bound
\* to the default 1.0 in the result, whatever the text holds besides; the
\* empty text gives 1.0 for all six keys.
DefaultWithoutKeyword ==
    pc = "returned" =>
        /\ \A key \in Keys : ~KeywordOccurs(key) => extracted_data[key] = One
        /\ text = <<>> => \A key \in Keys : extracted_data[key] = One

\* C4, its case: a text that binds one key to a number other than 1.0 and
\* has no keyword of another
DefaultBesideOtherValues ==
    /\ pc = "returned"
    /\ \E key \in Keys : KeywordOccurs(key) /\ extracted_data[key] # One
    /\ \E key \in Keys : ~KeywordOccurs(key) /\ extracted_data[key] = One

\* C6: for total_carbohydrate, dietary_fiber and total_sugars, when the text
\* that produced the number is exactly the digits of an integer n >= 10
\* ending in 0, the key is bound to n / 10; for protein and total_fat a
\* number read from the digits of an integer not ending in 9 is bound as
\* read, and servings is bound to the number read from its line as read.
\* Checked under SpecLong, where it fails.
DecimalShiftDividesByTen ==
    /\ \A key \in DecimalShiftKeys :
        (/\ Attempted(key) /\ Located(key)
         /\ IsIntegerDigits(ProducingText(key))
         /\ Len(ProducingText(key)) >= 2
         /\ ProducingText(key)[Len(ProducingText(key))] = "0")
        => /\ Done(key)
           /\ extracted_data[key] = IntegerValue(AllButLast(ProducingText(key)))
    /\ \A key \in {"protein", "total_fat"} :
        (/\ Attempted(key) /\ Located(key)
         /\ IsIntegerDigits(ProducingText(key))
         /\ ProducingText(key)[Len(ProducingText(key))] # "9")
        => /\ Done(key)
           /\ extracted_data[key] = ToFloat(ProducingText(key))
    /\ (Attempted("servings") /\ Located("servings"))
        => /\ Done("servings")
           /\ extracted_data["servings"]
                = FindNearestNumber(MatchedLine("servings"), FALSE)

\* C7: for every key but servings, when the text that produced the number
\* is exactly the digits of an integer, has more than one digit and ends in
\* 9, the key is bound to the integer written by the digits before that 9,
\* at any magnitude; a lone 9 stays 9.0. Checked under SpecLong, where it
\* fails.
TrailingNineDropped ==
    \A key \in TrailingNineKeys :
        (/\ Attempted(key) /\ Located(key)
         /\ IsIntegerDigits(ProducingText(key))
         /\ ProducingText(key)[Len(ProducingText(key))] = "9")
        => /\ Done(key)
           /\ extracted_data[key] =
                IF Len(ProducingText(key)) > 1
                THEN IntegerValue(AllButLast(ProducingText(key)))
                ELSE IntegerValue(ProducingText(key))

\* C8: for every key but servings, a number found after the keyword on its
\* line decides the value and the following line has no part in it; the
\* following line is read, with prioritize_grams true, only when nothing is
\* found after the keyword and a following line exists, and then its number
\* decides the value (both before the correction heuristics). "Dietary
\* Fiber" followed by "less than 1g" gives dietary_fiber = 0.5.
NextLineFallback ==
    pc = "returned" =>
        /\ \A key \in Keys \ {"servings"} : Located(key) =>
            \A same_line \in {FindNearestNumber(AfterKeyword(key), TRUE)} :
                IF same_line # NoValue
                THEN extracted_data[key]
                        = Heuristics(key, same_line, Strip(AfterKeyword(key))).value
                ELSE HasFollowingLine(key) =>
                    \A following \in {FindNearestNumber(FollowingLine(key), TRUE)} :
                        following # NoValue =>
                            extracted_data[key]
                                = Heuristics(key, following,
                                             Strip(FollowingLine(key))).value
        /\ lines = <<<<"d", "i", "e", "t", "a", "r", "y", " ", "f", "i", "b", "e", "r">>, <<"l", "e", "s", "s", " ", "t", "h", "a", "n", " ", "1", "g">>>>
            => extracted_data["dietary_fiber"] = Half

\* C8, its case: the value of dietary_fiber comes from the following line
ValueFromFollowingLine ==
    /\ pc = "returned"
    /\ lines = <<<<"d", "i", "e", "t", "a", "r", "y", " ", "f", "i", "b", "e", "r">>, <<"l", "e", "s", "s", " ", "t", "h", "a", "n", " ", "1", "g">>>>
    /\ FindNearestNumber(AfterKeyword("dietary_fiber"), TRUE) = NoValue
    /\ extracted_data["dietary_fiber"] = Half

\* C9: for total_sugars the keyword line is the first line that holds
\* "total sugars" or "azucares totales" (with its accent) whenever some line
\* does, even after an earlier line with bare "sugars"; the bare terms decide
\* only when no line holds a primary term.
PrimarySugarTermsFirst ==
    Done("total_sugars") =>
        LET holds(i, terms) ==
                \E n \in 1..Len(terms) : Contains(lines[i], terms[n])
            primary == {i \in 1..Len(lines) : holds(i, primary_sugar_terms)}
            any     == {i \in 1..Len(lines) : holds(i, Terms("total_sugars"))}
        IN  keyword_found_on_line["total_sugars"] =
                IF primary # {} THEN SetMin(primary) - 1
                ELSE IF any # {} THEN SetMin(any) - 1
                ELSE -1

\* C9, its case: bare "sugars" on the first line, "total sugars" on the second
BareSugarsBeforeTotalSugars ==
    /\ Done("total_sugars")
    /\ Len(lines) = 2
    /\ Contains(lines[1], <<"s", "u", "g", "a", "r", "s">>)
    /\ ~Contains(lines[1], <<"t", "o", "t", "a", "l", " ", "s", "u", "g", "a", "r", "s">>)
    /\ Contains(lines[2], <<"t", "o", "t", "a", "l", " ", "s", "u", "g", "a", "r", "s">>)
    /\ keyword_found_on_line["total_sugars"] = 1

\* the places the zero-gram pattern is looked for, for a located key
ZeroGramIn(key, occurs(_)) ==
    \/ occurs(AfterKeyword(key))
    \/ occurs(MatchedLine(key))
    \/ Strip(AfterKeyword(key)) = <<>> /\ occurs(FollowingLine(key))

TotalFatZeroProteinFive ==
    lines = <<<<"t", "o", "t", "a", "l", " ", "f", "a", "t", " ", "0", "g">>, <<"p", "r", "o", "t", "e", "i", "n", " ", "5", "g">>>>
        => /\ extracted_data["total_fat"] = Zero
           /\ extracted_data["protein"] = Number(<<"5">>, <<>>)

\* C10 as stated: a located key for which no number is recovered is bound to
\* 0.0 whenever the characters "0 g", "o g" or "zero g" (optional space)
\* occur after the keyword, on the matched line, or on the following line
\* when nothing follows the keyword, or an insignificant-source phrase is on
\* the matched or the following line.
ZeroWhenLiteralZeroGram ==
    pc = "returned" =>
        /\ \A key \in Keys :
            (/\ Located(key)
             /\ ZeroGramIn(key, LiteralZeroGram) \/ InsignificantSource(key)
             /\ ~NumberRecovered(key))
            => extracted_data[key] = Zero
        /\ TotalFatZeroProteinFive

\* C10: a located key for which no number is recovered is bound to 0.0
\* whenever "0 g", "o g" or "zero g" (optional space) stands as a word of its
\* own after the keyword, on the matched line, or on the following line when
\* nothing follows the keyword, or an insignificant-source phrase is on the
\* matched or the following line; "Total Fat 0g" followed by "Protein 5g"
\* gives total_fat = 0.0 and protein = 5.0.
ZeroWhenNoNumber ==
    pc = "returned" =>
        /\ \A key \in Keys :
            (/\ Located(key)
             /\ ZeroGramIn(key, WholeZeroGram) \/ InsignificantSource(key)
             /\ ~NumberRecovered(key))
            => extracted_data[key] = Zero
        /\ TotalFatZeroProteinFive

\* C10, its case: "0g" before the keyword on the last line, no number after
ZeroGramOnMatchedLine ==
    /\ pc = "returned"
    /\ Located("total_fat")
    /\ ~NumberRecovered("total_fat")
    /\ WholeZeroGram(MatchedLine("total_fat"))
    /\ ~InsignificantSource("total_fat")
    /\ extracted_data["total_fat"] = Zero

----------------------------------------------------------------------------
(* Properties of calls made side by side, under SpecCalls *)

\* the dict a call alone on the lines ls holds after its first n keys
RECURSIVE DataAfter(_, _)
DataAfter(ls, n) ==
    IF n = 0 THEN [k \in Keys |-> One]
    ELSE LET before == DataAfter(ls, n - 1)
             key    == KeyOrder[n]
         IN  [before EXCEPT ![key] =
                KeyOutcome(key, LocateKeyword(key, ls), ls, before[key]).value]

\* what a call alone on text t returns
ResultAlone(t) == DataAfter(Lines(t), Len(KeyOrder))

\* C11: what a call returns depends on its text only: it is what a call
\* alone on that text returns, whatever calls its request made before and
\* whatever other calls run interleaved with it; so two calls on the same
\* text return identical mappings.
ResultDependsOnTextOnly ==
    /\ \A c \in DOMAIN calls :
        calls[c].pc = "returned"
            => calls[c].extracted_data = ResultAlone(calls[c].text)
    /\ \A c, d \in DOMAIN calls :
        (/\ calls[c].pc = "returned" /\ calls[d].pc = "returned"
         /\ calls[c].text = calls[d].text)
            => calls[c].extracted_data = calls[d].extracted_data

\* C11, its case: a request's second call has returned values of its own
\* while a call on another text is in the middle of its loop
SecondCallBesideRunningCall ==
    \E c, d \in DOMAIN calls :
        /\ calls[c].pc = "returned"
        /\ calls[c].made = 2
        /\ calls[c].extracted_data # [k \in Keys |-> One]
        /\ calls[d].pc = "loop"
        /\ calls[d].key_index \in 1..(Len(KeyOrder) - 1)
        /\ calls[d].text # calls[c].text
        /\ calls[d].extracted_data # [k \in Keys |-> One]

----------------------------------------------------------------------------
(* Properties of the default and of the choice made for servings *)

HasDigit(s) == \E i \in 1..Len(s) : IsDigit(s[i])

\* C12: a located key stays at the default 1.0 when neither its matched line
\* nor the following line holds a digit, a zero-gram pattern or an
\* insignificant-source phrase; so for all six keys, servings on the bare
\* line "servings per container" included. Checked under Spec, where it
\* fails.
DefaultWithoutDigits ==
    pc = "returned" =>
        \A key \in Keys :
            (/\ Located(key)
             /\ \A s \in {MatchedLine(key), FollowingLine(key)} :
                    ~HasDigit(s) /\ ~LiteralZeroGram(s)
             /\ ~InsignificantSource(key))
            => extracted_data[key] = One

\* a g or a percent sign comes after position e - 1, as the letter is written
GramOrPercentFollows(s, e) == CharAt(s, SkipSpace(s, e)) \in {"g", "%"}

\* C13: with prioritize_grams false, of the numbers of the segment that no g
\* and no percent sign follows, the result is the first whose value is not
\* zero when there are several, the first when all are zero or there is one
\* only, and a number that a g or a percent sign follows has no part in the
\* result. Checked under SpecExtract, where it fails.
FirstNonZeroCandidate ==
    (Extracted /\ ~prioritize_grams /\ ~LessThanExpression(Normalized))
    => LET numbers == NumbersFrom(Normalized, 1)
           candidates == {n \in 1..Len(numbers) :
                            ~GramOrPercentFollows(Normalized, numbers[n].end)}
           nonzero == {n \in candidates : ToFloat(numbers[n].text) # Zero}
       IN  fnn_result =
                IF candidates = {} THEN NoValue
                ELSE IF Cardinality(candidates) > 1 /\ nonzero # {}
                THEN ToFloat(numbers[SetMin(nonzero)].text)
                ELSE ToFloat(numbers[SetMin(candidates)].text)

----------------------------------------------------------------------------
(* Properties of process_label, under SpecLabel *)

Responded == request.pc = "responded"

\* the request got as far as the check of response.error.message
DetectionAnswered ==
    /\ request.vision_client
    /\ request.read = "bytes"
    /\ request.detection = "response"

\* C14: of a request that has its response, an HTTPException raised inside
\* the try reached the client with its own status code and any other
\* exception raised there became status 500; a response of the detection
\* with an error message failed with 400, an empty upload with 400,
\* ServiceUnavailable with 503 and another GoogleAPIError with 502.
StatusCodeReachesClient ==
    Responded =>
        /\ request.exc.type = "HTTPException"
            => request.status_code = request.exc.status_code
        /\ request.exc.type \in ExceptionTypes \ {"HTTPException"}
            => request.status_code = 500
        /\ (DetectionAnswered /\ request.error_message # <<>>)
            => request.status_code = 400
        /\ (request.vision_client /\ request.read = "empty")
            => request.status_code = 400
        /\ (/\ request.vision_client /\ request.read = "bytes"
            /\ request.detection = "ServiceUnavailable")
            => request.status_code = 503
        /\ (/\ request.vision_client /\ request.read = "bytes"
            /\ request.detection = "GoogleAPIError")
            => request.status_code = 502

====
